---- MODULE Spec2Model ----
(***************************************************************************)
(* amplify-backend: a Google Drive watcher and the cloud function (the     *)
(* "Mover") that takes a file through Input -> Temp (staging) -> Output.   *)
(*                                                                         *)
(* The repository holds several programs; one process runs one of them.    *)
(* The variable prog says which:                                           *)
(*   handleRequest   src/unnamed/part_001  HTTP mover, pure moves          *)
(*   AmplifyEvent    src/unnamed/part_000  CloudEvent mover, copy to Output*)
(*   AmplifyHTTP     src/amplify-cloud-function/amplify.go  same, older    *)
(*   WatcherPubSub   src/amplify-watcher/main.go  push handler + poll loop *)
(*   WatcherWebhook  src/amplify-watcher/watcher.go:113-266  push handler  *)
(*                                                                         *)
(* The Drive service and the Pub/Sub topic are remote: every call to them  *)
(* is one atomic step that either takes effect and returns, or fails and   *)
(* changes nothing.                                                        *)
(***************************************************************************)
EXTENDS Integers, Sequences, FiniteSets, TLC

\* ------------------------------------------------------------------ bounds
\* Number of Mover invocations (requests) a behaviour holds.
MaxRuns == 2

\* ------------------------------------------------------------- the programs
Movers == {"handleRequest", "AmplifyEvent", "AmplifyHTTP"}

\* Folder identifiers; "X" is a folder no variable of the environment names.
Folders == {"I", "S", "O", "X"}

\* File identifiers a request can name. F2 is not on the Drive when a Mover
\* runs: a Get of it fails.
Files == {"F1", "F2"}

Runs == 1..MaxRuns

Range(s) == {s[i] : i \in 1..Len(s)}

\* Parent lists a file starts with: up to MaxParents distinct folders.
MaxParents == 2

NoDup(s) == \A i, j \in 1..Len(s) : i # j => s[i] # s[j]

InitParents ==
    {s \in UNION {[1..n -> Folders \ {"O"}] : n \in 0..MaxParents} : NoDup(s)}

\* os.Getenv of the three folder variables; "" is unset. Nothing in the code
\* makes the three distinct: the full configuration, each variable unset in
\* turn, and the patterns of equal values.
MoverEnvs ==
    {[INPUT_FOLDER_ID |-> i, TEMP_FOLDER_ID |-> t, OUTPUT_FOLDER_ID |-> o] :
       <<i, t, o>> \in {<<"I", "S", "O">>, <<"", "S", "O">>, <<"I", "", "O">>,
                        <<"I", "S", "">>, <<"I", "I", "O">>, <<"I", "S", "S">>,
                        <<"I", "S", "I">>, <<"I", "I", "I">>}}

\* A request body: malformed, or naming a file.
Bodies == {"malformed"} \cup Files

VARIABLES
    prog,      \* the program this process runs
    env,       \* its environment
    proc,      \* the process: where main is, "serving", or "exited"
    fault,     \* the remote call of the start-up that failed, "none" if none
    exists,    \* Drive: which files exist
    parents,   \* Drive: each file's parent list
    objs,      \* Drive: the file objects Files.Create made, in order
    run,       \* the Mover's invocations
    hnd,       \* the Watcher's push-notification requests
    poll,      \* the Watcher's poll loop
    topic,     \* the notifications relayed (published, or POSTed with a 200)
    clk        \* the Watcher's clock and what it times, where time is modelled

drive == <<exists, parents, objs>>
watcher == <<hnd, poll, topic>>
vars == <<prog, env, proc, fault, exists, parents, objs, run, hnd, poll, topic, clk>>

\* ------------------------------------------------------------ Drive service
\* file.Name and the bytes Download returns.
NameOf(f) == IF f = "F1" THEN "one.docx" ELSE "two.txt"
BytesOf(f) == IF f = "F1" THEN "bytes1" ELSE "bytes2"

\* A faulty variant: the update replaces the whole parent list by the target.
DriveUpdateReplace(ps, rem, add) == <<add>>

\* A faulty variant: the update takes effect only while the parent it removes
\* is still the first of the list.
DriveUpdateChecked(ps, rem, add) ==
    IF ps # <<>> /\ ps[1] = rem
    THEN LET kept == SelectSeq(ps, LAMBDA x : x # rem)
         IN  IF add \in Range(kept) THEN kept ELSE Append(kept, add)
    ELSE ps

\* Files.Update(id).RemoveParents(rem).AddParents(add): the parent set loses
\* rem and gains add.
DriveUpdate(ps, rem, add) ==
    LET kept == SelectSeq(ps, LAMBDA x : x # rem)
    IN  IF add \in Range(kept) THEN kept ELSE Append(kept, add)

\* ------------------------------------------------------------------- Mover
Response(code, msg) == [code |-> code, msg |-> msg]

\* What the caller got: an HTTP status and body (handleRequest), a returned
\* error (code 0; msg "nil" is no error), nothing yet, or a panic.
NoResponse == Response(-1, "")
Panic == Response(-2, "panic: index out of range")

IdleRun ==
    [pc |-> "idle", file |-> "", prev |-> <<>>, name |-> "", data |-> "",
     startp |-> <<>>, endp |-> <<>>, nUpd |-> 0, nCreate |-> 0,
     checked |-> FALSE, staged |-> FALSE, stale |-> FALSE, solo |-> TRUE,
     resp |-> NoResponse]

Active(r) == run[r].pc \notin {"idle", "done"}

ParentsIn(ps, f) == IF f \in Files THEN ps[f] ELSE <<>>

\* The invocation returns (or panics): nothing of it runs afterwards.
Finish(r, ps, resp) ==
    [run[r] EXCEPT !.pc = "done", !.prev = <<>>, !.data = "",
                   !.endp = ParentsIn(ps, run[r].file), !.resp = resp]

\* Bookkeeping of an invocation that starts now on file f: the parent list it
\* found, and whether any other invocation is running (then neither is solo).
Invoke(r, f, mine) ==
    /\ prog \in Movers
    /\ proc = "serving"
    /\ run[r].pc = "idle"
    /\ \A q \in Runs : q < r => run[q].pc # "idle"
    /\ LET others == [q \in Runs |->
                        IF Active(q) THEN [run[q] EXCEPT !.solo = FALSE] ELSE run[q]]
       IN  run' = [others EXCEPT ![r] =
                     [mine EXCEPT !.file = f, !.startp = ParentsIn(parents, f),
                                  !.endp = IF mine.pc = "done" THEN ParentsIn(parents, f)
                                           ELSE <<>>,
                                  !.solo = \A q \in Runs : ~Active(q)]]
    /\ UNCHANGED <<clk, prog, env, proc, fault, drive, watcher>>

FileOf(body) == IF body \in Files THEN body ELSE ""

\* init(): drive.NewService, log.Fatalf when it fails.
MoverInit ==
    /\ prog \in Movers
    /\ proc = "init"
    /\ \E ok \in BOOLEAN :
         /\ proc' = IF ok THEN "serving" ELSE "exited"
         /\ fault' = IF ok THEN "none" ELSE "drive"
    /\ UNCHANGED <<clk, prog, env, drive, run, watcher>>

\* handleRequest, to its first moveFile: 400 on a body that does not decode,
\* 500 when TEMP_FOLDER_ID or OUTPUT_FOLDER_ID is unset. It reads no
\* INPUT_FOLDER_ID and makes no input-folder check.
handleRequest(r, body) ==
    /\ prog = "handleRequest"
    /\ Invoke(r, FileOf(body),
         IF body = "malformed"
         THEN [IdleRun EXCEPT !.pc = "done", !.resp = Response(400, "Bad Request")]
         ELSE IF env.TEMP_FOLDER_ID = "" \/ env.OUTPUT_FOLDER_ID = ""
         THEN [IdleRun EXCEPT !.pc = "done",
                              !.resp = Response(500, "Folder IDs are not set")]
         ELSE [IdleRun EXCEPT !.pc = "mvT_get"])

\* AmplifyFunction (CloudEvent), to listFilesInInputFolder: the envelope, the
\* base64 data and the message must decode, the three folder ids must be set.
AmplifyFunctionEvent(r, body) ==
    /\ prog = "AmplifyEvent"
    /\ Invoke(r, FileOf(body),
         IF body = "malformed"
         THEN [IdleRun EXCEPT !.pc = "done",
                              !.resp = Response(0, "Failed to unmarshal event data")]
         ELSE IF env.INPUT_FOLDER_ID = "" \/ env.TEMP_FOLDER_ID = ""
                 \/ env.OUTPUT_FOLDER_ID = ""
         THEN [IdleRun EXCEPT !.pc = "done",
                              !.resp = Response(0, "Folder IDs are not set")]
         ELSE [IdleRun EXCEPT !.pc = "list"])

\* AmplifyFunction (amplify.go), to the metadata Get.
AmplifyFunctionHTTP(r, body) ==
    /\ prog = "AmplifyHTTP"
    /\ Invoke(r, FileOf(body),
         IF body = "malformed"
         THEN [IdleRun EXCEPT !.pc = "done",
                              !.resp = Response(0, "Error parsing PubSub message")]
         ELSE IF env.INPUT_FOLDER_ID = "" \/ env.TEMP_FOLDER_ID = ""
                 \/ env.OUTPUT_FOLDER_ID = ""
         THEN [IdleRun EXCEPT !.pc = "done",
                              !.resp = Response(0, "Folder IDs are not set")]
         ELSE [IdleRun EXCEPT !.pc = "meta"])

\* listFilesInInputFolder: Files.List; its error is returned.
listFilesInInputFolder(r) ==
    /\ run[r].pc = "list"
    /\ \E ok \in BOOLEAN :
         run' = [run EXCEPT ![r] =
                   IF ok THEN [@ EXCEPT !.pc = "meta"]
                   ELSE Finish(r, parents, Response(0, "Failed to list files"))]
    /\ UNCHANGED <<clk, prog, env, proc, fault, drive, watcher>>

\* inInputFolder: some parent of the file is INPUT_FOLDER_ID.
inInputFolder(ps) == \E i \in 1..Len(ps) : ps[i] = env.INPUT_FOLDER_ID

\* AmplifyFunction (both): Files.Get of the metadata, then the input-folder
\* check; a file outside the input folder is refused before any move.
GetMetadata(r) ==
    /\ run[r].pc = "meta"
    /\ LET f == run[r].file IN
       \E ok \in {b \in BOOLEAN : b => exists[f]} :
         run' = [run EXCEPT ![r] =
                   IF ~ok
                   THEN Finish(r, parents, Response(0, "Failed to get file metadata"))
                   ELSE IF ~inInputFolder(parents[f])
                   THEN Finish(r, parents, Response(0, "file is not in the input folder"))
                   ELSE [@ EXCEPT !.pc = "mvT_get", !.name = NameOf(f),
                                  !.checked = TRUE]]
    /\ UNCHANGED <<clk, prog, env, proc, fault, drive, watcher>>

\* A faulty variant: the caller takes a failed moveFile for a success.
MoveFailedAsSuccess(r, ps) ==
    Finish(r, ps, IF prog = "handleRequest"
                  THEN Response(200, "File processed successfully")
                  ELSE Response(0, "nil"))

\* A faulty variant: the caller calls moveFile again when it failed.
MoveFailedRetry(r, ps) ==
    [run[r] EXCEPT !.prev = <<>>,
                   !.pc = IF @ \in {"mvT_get", "mvT_upd"} THEN "mvT_get" ELSE "mvO_get"]

\* What the caller of moveFile does with its error: handleRequest answers 500,
\* AmplifyFunction returns it. No move is undone.
MoveFailed(r, ps) ==
    LET where == IF run[r].pc \in {"mvT_get", "mvT_upd"} THEN "temp" ELSE "output"
        code == IF prog = "handleRequest" THEN 500 ELSE 0
    IN  Finish(r, ps, Response(code, "Failed to move file to " \o where \o " folder"))

\* moveFile of part_000 checks len(file.Parents) == 0; the other two index
\* previousParents[0] unchecked.
ChecksEmptyParents == prog = "AmplifyEvent"

\* moveFile, first half: Files.Get(fileID).Fields("parents").
moveFileGet(r) ==
    /\ run[r].pc \in {"mvT_get", "mvO_get"}
    /\ LET f == run[r].file IN
       \E ok \in {b \in BOOLEAN : b => exists[f]} :
         run' = [run EXCEPT ![r] =
                   IF ~ok THEN MoveFailed(r, parents)
                   ELSE IF Len(parents[f]) = 0
                   THEN IF ChecksEmptyParents THEN MoveFailed(r, parents)
                        ELSE Finish(r, parents, Panic)
                   ELSE [@ EXCEPT !.prev = parents[f],
                                  !.pc = IF @ = "mvT_get" THEN "mvT_upd" ELSE "mvO_upd"]]
    /\ UNCHANGED <<clk, prog, env, proc, fault, drive, watcher>>

\* The folder a moveFile call was given.
Target(r) ==
    IF run[r].pc = "mvT_upd" THEN env.TEMP_FOLDER_ID ELSE env.OUTPUT_FOLDER_ID

\* What follows a moveFile that returned nil. handleRequest: processFile
\* (sleeps, returns nil) and the move to the output folder, then 200.
\* AmplifyFunction: processFile (CloudEvent one) and the download.
Moved(r, ps) ==
    IF run[r].pc = "mvO_upd"
    THEN [Finish(r, ps, Response(200, "File processed successfully"))
            EXCEPT !.nUpd = @ + 1]
    ELSE [run[r] EXCEPT !.nUpd = @ + 1, !.staged = TRUE, !.prev = <<>>,
                        !.pc = IF prog = "handleRequest" THEN "mvO_get" ELSE "download"]

\* moveFile, second half: Files.Update removing previousParents[0], adding the
\* target, on whatever the parent list is by now.
moveFileUpdate(r) ==
    /\ run[r].pc \in {"mvT_upd", "mvO_upd"}
    /\ LET f == run[r].file IN
       \E ok \in {b \in BOOLEAN : b => exists[f]} :
         IF ok
         THEN /\ parents' = [parents EXCEPT ![f] =
                               DriveUpdate(@, run[r].prev[1], Target(r))]
              /\ run' = [run EXCEPT ![r] =
                           [Moved(r, parents') EXCEPT
                              !.stale = @ \/ parents[f] # run[r].prev]]
         ELSE /\ run' = [run EXCEPT ![r] = MoveFailed(r, parents)]
              /\ UNCHANGED parents
    /\ UNCHANGED <<clk, prog, env, proc, fault, exists, objs, watcher>>

\* AmplifyFunction: Files.Get(fileID).Download() and reading the body;
\* amplify.go then runs processData (the identity) and writes /tmp/<name>.
Download(r) ==
    /\ run[r].pc = "download"
    /\ LET f == run[r].file IN
       \E outcome \in {"ok", "download", "read", "write"} :
         /\ outcome = "ok" => exists[f]
         /\ outcome = "write" => exists[f] /\ prog = "AmplifyHTTP"
         /\ run' = [run EXCEPT ![r] =
                      CASE outcome = "ok" -> [@ EXCEPT !.pc = "create", !.data = BytesOf(f)]
                        [] outcome = "download" ->
                             Finish(r, parents, Response(0, "Failed to download file"))
                        [] outcome = "read" ->
                             Finish(r, parents, Response(0, "Failed to read file data"))
                        [] OTHER ->
                             Finish(r, parents, Response(0, "Failed to write processed data"))]
    /\ UNCHANGED <<clk, prog, env, proc, fault, drive, watcher>>

\* A faulty variant: the object is created in the temp folder.
OutputObjectInTemp(r) ==
    [name |-> run[r].name, parents |-> <<env.TEMP_FOLDER_ID>>,
     bytes |-> run[r].data, by |-> r]

\* The object Files.Create is given: &drive.File{Name: file.Name, Parents:
\* []string{outputFolderID}} and the downloaded bytes as its media; by is the
\* invocation that made it.
OutputObject(r) ==
    [name |-> run[r].name, parents |-> <<env.OUTPUT_FOLDER_ID>>,
     bytes |-> run[r].data, by |-> r]

\* AmplifyFunction: Files.Create of {Name: file.Name, Parents: [output]} with
\* the downloaded bytes; the original file is left where moveFile put it.
Create(r) ==
    /\ run[r].pc = "create"
    /\ \E ok \in BOOLEAN :
         IF ok
         THEN /\ objs' = Append(objs, OutputObject(r))
              /\ run' = [run EXCEPT ![r] =
                           [Finish(r, parents, Response(0, "nil")) EXCEPT !.nCreate = @ + 1]]
         ELSE /\ run' = [run EXCEPT ![r] =
                           Finish(r, parents, Response(0, "Failed to create file in output folder"))]
              /\ UNCHANGED objs
    /\ UNCHANGED <<clk, prog, env, proc, fault, exists, parents, watcher>>

\* ----------------------------------------------------------------- Watcher
Watchers == {"WatcherPubSub", "WatcherWebhook"}

WatcherVars ==
    {"GOOGLE_APPLICATION_CREDENTIALS", "DRIVE_FOLDER_ID", "PUBSUB_TOPIC",
     "WEBHOOK_URL", "PROJECT_ID", "CHANNEL_ID"}

\* The Watcher's environment: every variable set, or one of them unset.
AllSet == [v \in WatcherVars |-> IF v = "DRIVE_FOLDER_ID" THEN "I" ELSE "set"]
WatcherEnvs == {AllSet} \cup {[AllSet EXCEPT ![v] = ""] : v \in WatcherVars}

\* Number of push notifications a behaviour holds.
MaxReqs == 2

Reqs == 1..MaxReqs

\* The 5 seconds within which a file counts as new or modified.
RecencySeconds == 5

\* file.MimeType
MimeOf(f) ==
    IF f = "F1"
    THEN "application/vnd.openxmlformats-officedocument.wordprocessingml.document"
    ELSE "text/plain"

IdleHnd ==
    [pc |-> "idle", file |-> "", attempts |-> 0, relayed |-> FALSE,
     resp |-> NoResponse]

IdlePoll == [pc |-> "off", queue |-> <<>>, tries |-> [f \in Files |-> 0]]

\* The clock at the start: second 0; no file has times yet, nothing was
\* examined, the loop has not slept.
NoTimes == [created |-> 0, modified |-> 0, garbled |-> FALSE]
ClockZero ==
    [now |-> 0, slept |-> 0, busy |-> 0,
     meta |-> [f \in Files |-> NoTimes],
     seen |-> [f \in Files |-> {}]]

\* main, first lines: log.Fatal unless GOOGLE_APPLICATION_CREDENTIALS is set.
WatcherMain ==
    /\ prog \in Watchers
    /\ proc = "init"
    /\ proc' = IF env["GOOGLE_APPLICATION_CREDENTIALS"] = "" THEN "exited" ELSE "drive"
    /\ UNCHANGED <<clk, prog, env, fault, drive, run, watcher>>

\* A faulty variant: the check of the environment leaves WEBHOOK_URL and PROJECT_ID out.
RequiredVarsShort == {"DRIVE_FOLDER_ID", "PUBSUB_TOPIC"}

\* The variables main refuses to start without (main.go:64, watcher.go:174).
RequiredVars ==
    IF prog = "WatcherPubSub"
    THEN {"DRIVE_FOLDER_ID", "PUBSUB_TOPIC", "WEBHOOK_URL", "PROJECT_ID"}
    ELSE {"DRIVE_FOLDER_ID", "PUBSUB_TOPIC", "CHANNEL_ID", "WEBHOOK_URL"}

\* drive.NewService (watcher.go: after google.FindDefaultCredentials), fatal
\* when it fails; then the check of the environment, fatal when one is unset.
NewService ==
    /\ prog \in Watchers
    /\ proc = "drive"
    /\ \E ok \in BOOLEAN :
         /\ fault' = IF ok THEN "none" ELSE "drive"
         /\ proc' = IF ok /\ \A v \in RequiredVars : env[v] # "" THEN "watch"
                    ELSE "exited"
    /\ UNCHANGED <<clk, prog, env, drive, run, watcher>>

\* driveService.Files.Watch(folderID, watchRequest), fatal when it fails.
FilesWatch ==
    /\ prog \in Watchers
    /\ proc = "watch"
    /\ \E ok \in BOOLEAN :
         /\ fault' = IF ok THEN "none" ELSE "watch"
         /\ proc' = IF ~ok THEN "exited"
                    ELSE IF prog = "WatcherPubSub" THEN "pubsub" ELSE "listen"
    /\ UNCHANGED <<clk, prog, env, drive, run, watcher>>

\* main.go: pubsub.NewClient, fatal when it fails; then the poll loop's
\* goroutine is started.
NewClient ==
    /\ prog = "WatcherPubSub"
    /\ proc = "pubsub"
    /\ \E ok \in BOOLEAN :
         /\ fault' = IF ok THEN "none" ELSE "pubsub"
         /\ proc' = IF ok THEN "listen" ELSE "exited"
         /\ poll' = IF ok THEN [poll EXCEPT !.pc = "list"] ELSE poll
    /\ UNCHANGED <<clk, prog, env, drive, run, hnd, topic>>

\* http.ListenAndServe: the handlers are served, or log.Fatalf.
ListenAndServe ==
    /\ prog \in Watchers
    /\ proc = "listen"
    /\ \E ok \in BOOLEAN :
         /\ fault' = IF ok THEN "none" ELSE "listen"
         /\ proc' = IF ok THEN "serving" ELSE "exited"
    /\ UNCHANGED <<clk, prog, env, drive, run, watcher>>

\* The handler of "/", to its Files.Get: 400 when the body cannot be read or
\* is not a Notification.
PushRequest(h, body) ==
    /\ prog \in Watchers
    /\ proc = "serving"
    /\ hnd[h].pc = "idle"
    /\ \A g \in Reqs : g < h => hnd[g].pc # "idle"
    /\ hnd' = [hnd EXCEPT ![h] =
                 CASE body = "unreadable" ->
                        [@ EXCEPT !.pc = "done",
                                  !.resp = Response(400, "Unable to read request body")]
                   [] body = "malformed" ->
                        [@ EXCEPT !.pc = "done",
                                  !.resp = Response(400, "Unable to parse request body")]
                   [] OTHER -> [@ EXCEPT !.pc = "meta", !.file = body]]
    /\ UNCHANGED <<clk, prog, env, proc, fault, drive, run, poll, topic>>

IsWord(mime) ==
    \/ mime = "application/vnd.openxmlformats-officedocument.wordprocessingml.document"
    \/ mime = "application/msword"

\* A faulty variant: the handler moves the file it was notified of.
AfterFilesUpdate(f) == [parents EXCEPT ![f] = DriveUpdate(@, @[1], "S")]

\* What Files.Get leaves of the Drive's parent lists: it reads.
AfterFilesGet(f) == parents

\* The handler: Files.Get(notification.ResourceID), 500 when it fails;
\* main.go then returns, with nothing written, for a file that is no Word
\* document.
PushMetadata(h) ==
    /\ proc = "serving"
    /\ hnd[h].pc = "meta"
    /\ LET f == hnd[h].file IN
       /\ \E ok \in {b \in BOOLEAN : b => exists[f]} :
            hnd' = [hnd EXCEPT ![h] =
                      IF ~ok
                      THEN [@ EXCEPT !.pc = "done",
                                     !.resp = Response(500, "Unable to retrieve file metadata")]
                      ELSE IF prog = "WatcherPubSub" /\ ~IsWord(MimeOf(f))
                      THEN [@ EXCEPT !.pc = "done", !.resp = Response(200, "")]
                      ELSE [@ EXCEPT !.pc = "relay"]]
       /\ parents' = AfterFilesGet(f)
    /\ UNCHANGED <<clk, prog, env, proc, fault, exists, objs, run, poll, topic>>

\* A faulty variant: log.Fatalf in place of log.Printf.
PublishFatal(p) == "exited"

\* A faulty variant: the handler tries again after a failed relay.
AfterRelayRetry(ok) == IF ok THEN "done" ELSE "relay"

\* The process after a publish whose result.Get returned an error: the error
\* is logged (log.Printf), nothing else.
PublishFailed(p) == p

\* The handler after its one relay attempt: it answers and returns.
AfterRelay(ok) == "done"

\* The handler's relay. main.go: topic.Publish and result.Get; an error is
\* logged and the answer is the same. watcher.go: http.Post to the webhook;
\* an error or a status other than 200 is answered with 500.
PushRelay(h) ==
    /\ proc = "serving"
    /\ hnd[h].pc = "relay"
    /\ \E outcome \in {"ok", "error", "non200"} :
         /\ outcome = "non200" => prog = "WatcherWebhook"
         /\ hnd' = [hnd EXCEPT ![h] =
                      [@ EXCEPT !.pc = AfterRelay(outcome = "ok"),
                                !.attempts = @ + 1,
                                !.relayed = (outcome = "ok"),
                                !.resp =
                                  IF prog = "WatcherPubSub" \/ outcome = "ok"
                                  THEN Response(200, "Notification received and processed.")
                                  ELSE IF outcome = "error"
                                  THEN Response(500, "Unable to send file info to webhook")
                                  ELSE Response(500, "Non-OK HTTP status from webhook")]]
         /\ topic' = IF outcome = "ok"
                     THEN topic \cup {[file |-> hnd[h].file, src |-> "push"]}
                     ELSE topic
         /\ proc' = IF outcome = "ok" \/ prog = "WatcherWebhook" THEN proc
                    ELSE PublishFailed(proc)
    /\ UNCHANGED <<clk, prog, env, fault, drive, run, poll>>

PollRuns == prog = "WatcherPubSub" /\ proc \in {"listen", "serving"}

\* The files Files.List returns for "'<folder>' in parents".
Listing(folder) ==
    LET in(f) == exists[f] /\ folder \in Range(parents[f])
    IN  (IF in("F1") THEN <<"F1">> ELSE <<>>) \o (IF in("F2") THEN <<"F2">> ELSE <<>>)

\* The loop sleeps after listFiles returned.
Asleep(p) == [p EXCEPT !.pc = "sleep", !.queue = <<>>]

\* The loop after the Files.List call of listFiles: with the files to
\* examine, or asleep when the call failed (logged) or listed nothing.
Listed(ok) ==
    LET files == Listing(env["DRIVE_FOLDER_ID"])
        fresh == [poll EXCEPT !.tries = [f \in Files |-> 0]]
    IN  IF ok /\ files # <<>>
        THEN [fresh EXCEPT !.pc = "scan", !.queue = files]
        ELSE Asleep(fresh)

\* listFiles, the Files.List call: an error is logged and listFiles returns.
PollList ==
    /\ PollRuns
    /\ poll.pc = "list"
    /\ \E ok \in BOOLEAN : poll' = Listed(ok)
    /\ UNCHANGED <<clk, prog, env, proc, fault, drive, run, hnd, topic>>

\* What a listed file's createdTime and modifiedTime can be when the loop
\* comes to it, as the seconds time.Since gives (-1: the text does not
\* parse): just created, modified at the edge of the 5 seconds, old, and one
\* or the other unparsable.
Stamps ==
    {[created |-> c, modified |-> m] :
        <<c, m>> \in {<<0, 0>>, <<RecencySeconds + 1, RecencySeconds>>,
                      <<RecencySeconds + 1, RecencySeconds + 1>>, <<-1, 0>>, <<0, -1>>}}

\* time.Parse(time.RFC3339, text) returned no error.
Parses(since) == since >= 0

\* A faulty variant: "<" where the code has "<=".
IsNewStrict(e) == e.created < RecencySeconds \/ e.modified < RecencySeconds

\* time.Since(createdTime) <= 5s || time.Since(modifiedTime) <= 5s
IsNew(e) == e.created <= RecencySeconds \/ e.modified <= RecencySeconds

\* What is left to examine after a file was examined.
Rest(q, ok) == Tail(q)

\* listFiles, one turn of its loop on a file whose times are e, ok telling
\* whether the publish succeeds: the file is skipped when a time does not
\* parse; a new or modified file is published, an error of it logged.
Examined(e, ok) ==
    LET f == Head(poll.queue)
        flagged == Parses(e.created) /\ Parses(e.modified) /\ IsNew(e)
        rest == Rest(poll.queue, ~flagged \/ ok)
        next == [poll EXCEPT !.queue = rest,
                             !.tries[f] = IF flagged THEN @ + 1 ELSE @]
    IN  [flagged |-> flagged,
         poll |-> IF rest = <<>> THEN Asleep(next) ELSE next,
         topic |-> IF flagged /\ ok
                   THEN topic \cup {[file |-> f, src |-> "poll"]}
                   ELSE topic,
         proc |-> IF flagged /\ ~ok THEN PublishFailed(proc) ELSE proc]

\* listFiles, one turn of its loop, with any times the file can have.
PollExamine ==
    /\ PollRuns
    /\ poll.pc = "scan"
    /\ \E e \in Stamps, ok \in BOOLEAN :
         LET x == Examined(e, ok)
         IN  /\ ~x.flagged => ok
             /\ poll' = x.poll
             /\ topic' = x.topic
             /\ proc' = x.proc
    /\ UNCHANGED <<clk, prog, env, fault, drive, run, hnd>>

\* time.Sleep(5 * time.Second) returns and the loop lists again.
PollWake ==
    /\ PollRuns
    /\ poll.pc = "sleep"
    /\ poll' = [poll EXCEPT !.pc = "list"]
    /\ UNCHANGED <<clk, prog, env, proc, fault, drive, run, hnd, topic>>

\* ------------------------------------------------------------- environment
\* A user puts a file into the monitored folder.
UserUpload(f) ==
    /\ prog \in Watchers
    /\ proc # "exited"
    /\ ~exists[f]
    /\ exists' = [exists EXCEPT ![f] = TRUE]
    /\ parents' = [parents EXCEPT ![f] = <<"I">>]
    /\ UNCHANGED <<clk, prog, env, proc, fault, objs, run, watcher>>

\* ------------------------------------------------------------ specification
Init ==
    /\ prog \in Movers \cup Watchers
    /\ env \in IF prog \in Movers THEN MoverEnvs ELSE WatcherEnvs
    /\ proc = "init"
    /\ fault = "none"
    /\ exists = [f \in Files |-> prog \in Movers /\ f = "F1"]
    /\ \E ps \in InitParents :
         parents = [f \in Files |-> IF prog \in Movers /\ f = "F1" THEN ps ELSE <<>>]
    /\ objs = <<>>
    /\ run = [r \in Runs |-> IdleRun]
    /\ hnd = [h \in Reqs |-> IdleHnd]
    /\ poll = IdlePoll
    /\ topic = {}
    /\ clk = ClockZero

MoverNext ==
    \/ MoverInit
    \/ \E r \in Runs, body \in Bodies : handleRequest(r, body)
    \/ \E r \in Runs, body \in Bodies : AmplifyFunctionEvent(r, body)
    \/ \E r \in Runs, body \in Bodies : AmplifyFunctionHTTP(r, body)
    \/ \E r \in Runs : listFilesInInputFolder(r)
    \/ \E r \in Runs : GetMetadata(r)
    \/ \E r \in Runs : moveFileGet(r)
    \/ \E r \in Runs : moveFileUpdate(r)
    \/ \E r \in Runs : Download(r)
    \/ \E r \in Runs : Create(r)

WatcherNext ==
    \/ WatcherMain
    \/ NewService
    \/ FilesWatch
    \/ NewClient
    \/ ListenAndServe
    \/ \E h \in Reqs, body \in {"unreadable"} \cup Bodies : PushRequest(h, body)
    \/ \E h \in Reqs : PushMetadata(h)
    \/ \E h \in Reqs : PushRelay(h)
    \/ PollList
    \/ PollExamine
    \/ PollWake

EnvNext == \E f \in Files : UserUpload(f)

Next == MoverNext \/ WatcherNext \/ EnvNext

Spec == Init /\ [][Next]_vars

\* The next remote call of invocation r, and what the code does on its return.
RunStep(r) ==
    \/ listFilesInInputFolder(r)
    \/ GetMetadata(r)
    \/ moveFileGet(r)
    \/ moveFileUpdate(r)
    \/ Download(r)
    \/ Create(r)

\* A Mover with its Temp and Output folders set, where every remote call
\* returns, with a result or an error: an invocation that has a next step
\* takes it.
LiveInit ==
    /\ Init
    /\ prog \in Movers
    /\ env.TEMP_FOLDER_ID = "S" /\ env.OUTPUT_FOLDER_ID = "O"

LiveSpec == LiveInit /\ [][MoverNext]_vars /\ \A r \in Runs : WF_vars(RunStep(r))

\* -------------------------------------------------- the poll loop, in time
\* The seconds a behaviour lasts.
MaxTime == 7

\* The seconds a remote call of the loop (Files.List, a publish) can take.
MaxLatency == 1

\* time.Sleep(5 * time.Second)
SleepSeconds == 5

\* The times of file f as listFiles sees them at this second: what
\* time.Since gives of createdTime and modifiedTime, -1 for a createdTime
\* that does not parse.
StampOf(f) ==
    LET m == clk.meta[f]
    IN  [created |-> IF m.garbled THEN -1 ELSE clk.now - m.created,
         modified |-> clk.now - m.modified]

\* The clock when the loop has made a step: its next call starts now, and a
\* loop that went to sleep did so at this second.
Stepped(p) ==
    [clk EXCEPT !.busy = 0, !.slept = IF p.pc = "sleep" THEN clk.now ELSE @]

\* A second passes; the seconds are counted from the moment the Watcher
\* serves. A call of the loop returns within MaxLatency seconds and
\* time.Sleep returns when its 5 seconds are over.
ClockTick ==
    /\ proc = "serving"
    /\ clk.now < MaxTime
    /\ (PollRuns /\ poll.pc \in {"list", "scan"}) => clk.busy < MaxLatency
    /\ (PollRuns /\ poll.pc = "sleep") => clk.now < clk.slept + SleepSeconds
    /\ clk' = [clk EXCEPT !.now = @ + 1,
                          !.busy = IF poll.pc \in {"list", "scan"} THEN @ + 1 ELSE 0]
    /\ UNCHANGED <<prog, env, proc, fault, drive, run, watcher>>

\* listFiles, the Files.List call, at this second.
ClockList ==
    /\ PollRuns
    /\ poll.pc = "list"
    /\ \E ok \in BOOLEAN :
         /\ poll' = Listed(ok)
         /\ clk' = [Stepped(Listed(ok)) EXCEPT
                      !.seen = [f \in Files |->
                                  IF ~ok /\ exists[f] THEN @[f] \cup {"unlisted"}
                                  ELSE @[f]]]
    /\ UNCHANGED <<prog, env, proc, fault, drive, run, hnd, topic>>

\* listFiles, one turn of its loop, at this second; what became of the file
\* is remembered: its time did not parse ("bad"), it was not new ("old"), it
\* was published ("sent") or its publish failed ("lost").
ClockExamine ==
    /\ PollRuns
    /\ poll.pc = "scan"
    /\ \E ok \in BOOLEAN :
         LET f == Head(poll.queue)
             x == Examined(StampOf(f), ok)
             verdict == IF clk.meta[f].garbled THEN "bad"
                        ELSE IF ~x.flagged THEN "old"
                        ELSE IF ok THEN "sent" ELSE "lost"
         IN  /\ ~x.flagged => ok
             /\ poll' = x.poll
             /\ topic' = x.topic
             /\ proc' = x.proc
             /\ clk' = [Stepped(x.poll) EXCEPT !.seen[f] = @ \cup {verdict}]
    /\ UNCHANGED <<prog, env, fault, drive, run, hnd>>

\* time.Sleep(5 * time.Second) returns, its 5 seconds over.
ClockWake ==
    /\ PollRuns
    /\ poll.pc = "sleep"
    /\ clk.now >= clk.slept + SleepSeconds
    /\ poll' = [poll EXCEPT !.pc = "list"]
    /\ clk' = Stepped(poll')
    /\ UNCHANGED <<prog, env, proc, fault, drive, run, hnd, topic>>

\* A user creates a file in the monitored folder of the serving Watcher; the
\* Drive stamps it with this second (F1 possibly with a createdTime that is
\* garbled).
ClockUpload(f) ==
    /\ PollRuns /\ proc = "serving"
    /\ ~exists[f]
    /\ exists' = [exists EXCEPT ![f] = TRUE]
    /\ parents' = [parents EXCEPT ![f] = <<env["DRIVE_FOLDER_ID"]>>]
    /\ \E g \in {b \in BOOLEAN : b => f = "F1"} :
         clk' = [clk EXCEPT !.meta[f] =
                   [created |-> clk.now, modified |-> clk.now, garbled |-> g]]
    /\ UNCHANGED <<prog, env, proc, fault, objs, run, watcher>>

\* A user modifies, once, a file of the monitored folder.
ClockModify(f) ==
    /\ PollRuns
    /\ exists[f]
    /\ clk.meta[f].modified = clk.meta[f].created
    /\ clk.meta[f].modified < clk.now
    /\ clk' = [clk EXCEPT !.meta[f].modified = clk.now]
    /\ UNCHANGED <<prog, env, proc, fault, drive, run, watcher>>

\* The Watcher of main.go with everything set, its poll loop on the clock;
\* no push notification arrives.
ClockInit == Init /\ prog = "WatcherPubSub" /\ env = AllSet

ClockNext ==
    \/ WatcherMain
    \/ NewService
    \/ FilesWatch
    \/ NewClient
    \/ ListenAndServe
    \/ ClockList
    \/ ClockExamine
    \/ ClockWake
    \/ ClockTick
    \/ \E f \in Files : ClockUpload(f)
    \/ \E f \in Files : ClockModify(f)

ClockSpec == ClockInit /\ [][ClockNext]_vars

\* ------------------------------------------------------------------ claims
Done(r) == run[r].pc = "done"
Succeeded(r) == Done(r) /\ run[r].resp \in {Response(200, "File processed successfully"),
                                            Response(0, "nil")}
\* An error the caller received: an HTTP 4xx/500, or a returned error.
ErrorSurfaced(r) ==
    \/ run[r].resp.code \in {400, 500}
    \/ run[r].resp.code = 0 /\ run[r].resp.msg # "nil"

\* Input, Temp and Output are set and are three different folders.
WellConfigured ==
    /\ prog \in Movers
    /\ env.INPUT_FOLDER_ID = "I"
    /\ env.TEMP_FOLDER_ID = "S"
    /\ env.OUTPUT_FOLDER_ID = "O"

\* C1: a run (overlapped by no other, under a full configuration) on a file
\* whose parents do not include the configured Input folder makes no move and
\* creates no object: the file keeps the parent list it had, and the run does
\* not end in success.
C1_RejectsOutsideInput ==
    \A r \in Runs :
        (/\ run[r].pc # "idle" /\ run[r].solo /\ WellConfigured
         /\ run[r].file \in Files
         /\ env.INPUT_FOLDER_ID \notin Range(run[r].startp))
        => /\ run[r].nCreate = 0
           /\ IF Done(r) THEN ~Succeeded(r) /\ run[r].endp = run[r].startp
              ELSE parents[run[r].file] = run[r].startp

\* C2: a run that returns success on a file whose parents include Input
\* leaves the file with exactly the parent set {Output}, Input not in it.
C2_SuccessEndsInOutput ==
    \A r \in Runs :
        (/\ Succeeded(r) /\ run[r].solo /\ WellConfigured
         /\ env.INPUT_FOLDER_ID \in Range(run[r].startp))
        => /\ Range(run[r].endp) = {env.OUTPUT_FOLDER_ID}
           /\ env.INPUT_FOLDER_ID \notin Range(run[r].endp)

\* C3: moveFile on a file with an empty parent list returns an error to its
\* caller (which then reports "Failed to move file ...") and updates nothing.
C3_EmptyParentsIsAnError ==
    [][\A r \in Runs :
         (/\ run[r].pc \in {"mvT_get", "mvO_get"}
          /\ run'[r].pc # run[r].pc
          /\ parents[run[r].file] = <<>>)
         => /\ run'[r].pc = "done"
            /\ ErrorSurfaced(r)'
            /\ parents' = parents]_vars

\* C4: of two runs in sequence for the same file, the first successful, the
\* second leaves the file's parent set as the first left it.
C4_SecondRunKeepsLocation ==
    \A r \in Runs :
        (/\ r + 1 \in Runs /\ WellConfigured
         /\ Succeeded(r) /\ Done(r + 1)
         /\ run[r].solo /\ run[r + 1].solo
         /\ run[r + 1].file = run[r].file)
        => Range(run[r + 1].endp) = Range(run[r].endp)

\* A step after the move to Temp failed: the run ended without the move to
\* Output (handleRequest) or without the object in Output (AmplifyFunction).
FailedAfterStaging(r) ==
    /\ Done(r) /\ run[r].staged
    /\ IF prog = "handleRequest" THEN run[r].nUpd < 2 ELSE run[r].nCreate = 0

\* C5: a run, overlapped by no other, on a file that started with parents
\* [Input], whose move to Temp succeeded and a later step failed: the error
\* reaches the caller, no further move is made and the file ends in [Temp].
C5_StrandedInStaging ==
    \A r \in Runs :
        (/\ FailedAfterStaging(r) /\ run[r].solo
         /\ env.INPUT_FOLDER_ID # ""
         /\ run[r].startp = <<env.INPUT_FOLDER_ID>>)
        => /\ ErrorSurfaced(r)
           /\ run[r].nUpd = 1
           /\ run[r].endp = <<env.TEMP_FOLDER_ID>>

C5_Witness ==
    \E r \in Runs :
        /\ FailedAfterStaging(r) /\ run[r].solo /\ WellConfigured
        /\ run[r].startp = <<"I">> /\ run[r].endp = <<"S">>
        /\ ErrorSurfaced(r)

\* C6: handleRequest answers 200 "File processed successfully" exactly when
\* both moves (and the processing between them) succeeded, and otherwise
\* answers 400 or 500 with an error message.
C6_ResponseTellsOutcome ==
    \A r \in Runs :
        (prog = "handleRequest" /\ Done(r))
        => /\ (run[r].resp = Response(200, "File processed successfully"))
                <=> (run[r].staged /\ run[r].nUpd = 2)
           /\ ~(run[r].staged /\ run[r].nUpd = 2)
                => (run[r].resp.code \in {400, 500} /\ run[r].resp.msg # "")

\* Nothing of the Watcher has run past its start-up: it does not listen, the
\* poll loop was never started, no notification was handled or relayed.
Quiet ==
    /\ proc \in {"init", "drive", "watch", "pubsub", "exited"}
    /\ poll.pc = "off"
    /\ \A h \in Reqs : hnd[h].pc = "idle"
    /\ topic = {}

Unset(names) == \E v \in names : env[v] = ""

\* C7: no step of the Watcher (start-up, push handler, poll scan) changes a
\* parent list, nor anything else on the Drive.
C7_WatcherOnlyReads ==
    [][(prog \in Watchers /\ <<parents, exists, objs>>' # <<parents, exists, objs>>)
          => ~(WatcherNext)]_vars

C7_Witness ==
    /\ prog = "WatcherPubSub"
    /\ parents["F1"] = <<"I">>
    /\ \E h \in Reqs : hnd[h].relayed /\ hnd[h].file = "F1"
    /\ [file |-> "F1", src |-> "poll"] \in topic

C9_FailuresAreNotFatal ==
    [][(prog \in Watchers /\ proc = "serving")
       => /\ proc' = "serving"
          /\ poll.pc # "off" => poll'.pc # "off"
          /\ \A h \in Reqs :
               (hnd[h].pc # "done" /\ hnd'[h].pc = "done" /\ hnd'[h].resp.code # 200)
               => topic' = topic]_vars

\* A request failed on its metadata and one on its relay, a publish of the
\* scan failed, and the process serves and the loop has gone on to sleep.
C9_Witness ==
    /\ prog = "WatcherPubSub" /\ proc = "serving"
    /\ \E h \in Reqs : hnd[h].pc = "done" /\ hnd[h].resp.code = 500
    /\ \E h \in Reqs : hnd[h].pc = "done" /\ hnd[h].attempts = 1 /\ ~hnd[h].relayed
    /\ poll.pc = "sleep"
    /\ \E f \in Files : poll.tries[f] = 1 /\ [file |-> f, src |-> "poll"] \notin topic

\* C10: a push request makes at most one relay attempt and has returned after
\* it, failed or not; a scan makes at most one publish attempt for a file it
\* flagged and has gone past the file after it.
C10_AtMostOneAttempt ==
    /\ \A h \in Reqs :
         /\ hnd[h].attempts <= 1
         /\ hnd[h].attempts = 1 => hnd[h].pc = "done"
    /\ \A f \in Files :
         /\ poll.tries[f] <= 1
         /\ poll.tries[f] = 1 => f \notin Range(poll.queue)

C10_Witness ==
    /\ \E h \in Reqs : hnd[h].pc = "done" /\ hnd[h].attempts = 1 /\ ~hnd[h].relayed
    /\ \E f \in Files : poll.tries[f] = 1 /\ [file |-> f, src |-> "poll"] \notin topic

ContentVariant == prog \in {"AmplifyEvent", "AmplifyHTTP"}

\* C11: in one run the move to Temp is made only after the input check
\* passed, something is placed in Output (the second move, or the created
\* object) only after the move to Temp succeeded in the same run, and a run
\* that has ended, at its first failing step or in success, does nothing more.
C11_StepsInOrder ==
    [][\A r \in Runs :
         /\ Done(r) => run'[r] = run[r]
         /\ (run[r].nUpd = 0 /\ run'[r].nUpd = 1) => run[r].checked
         /\ (\/ run'[r].nCreate > run[r].nCreate
             \/ run[r].nUpd = 1 /\ run'[r].nUpd = 2) => run[r].staged]_vars

C14_BlindUpdate ==
    [][\A r \in Runs :
         (/\ run[r].pc \in {"mvT_upd", "mvO_upd"}
          /\ run'[r].nUpd = run[r].nUpd + 1)
         => LET f == run[r].file
            IN  Range(parents'[f]) =
                  (Range(parents[f]) \ {run[r].prev[1]}) \cup {Target(r)}]_vars

\* Two runs for the same file, found in [Input], both passed the input check
\* (so both before either moved: no move puts the file back into Input), and
\* one of them updated a parent list that had changed since it read it.
C14_Witness ==
    /\ ContentVariant /\ WellConfigured
    /\ \E r, q \in Runs :
         /\ r # q /\ run[r].file = run[q].file
         /\ run[r].startp = <<"I">> /\ run[q].startp = <<"I">>
         /\ run[r].checked /\ run[q].checked
         /\ run[q].stale

\* C17: AmplifyFunction with three different folders, runs one after the
\* other for the same file: at most one object is created in Output, and no
\* run after a successful one passes the input check.
C17_OneOutputObject ==
    (ContentVariant /\ WellConfigured /\ \A r \in Runs : run[r].solo)
    => /\ Len(objs) <= 1
       /\ \A r, q \in Runs :
            (Succeeded(r) /\ q > r /\ run[q].file = run[r].file)
            => ~run[q].checked

\* How far an invocation is: every step takes it further.
Rank(pc) ==
    CASE pc = "idle" -> 0
      [] pc = "list" -> 1
      [] pc = "meta" -> 2
      [] pc = "mvT_get" -> 3
      [] pc = "mvT_upd" -> 4
      [] pc \in {"download", "mvO_get"} -> 5
      [] pc \in {"create", "mvO_upd"} -> 6
      [] OTHER -> 7

C18_SuccessBodyOnlyAfterRelay ==
    \A h \in Reqs :
        (prog \in Watchers /\ hnd[h].pc = "done")
        => /\ hnd[h].resp.msg = "Notification received and processed."
                => hnd[h].relayed
           /\ (hnd[h].attempts = 1 /\ ~hnd[h].relayed)
                => hnd[h].resp.code >= 400

\* C19: every notification on the topic, from the push handler or from a
\* scan, is of a Word document.
C19_OnlyWordPublished ==
    prog = "WatcherPubSub"
    => \A m \in topic :
         \/ MimeOf(m.file) = "application/msword"
         \/ MimeOf(m.file) =
              "application/vnd.openxmlformats-officedocument.wordprocessingml.document"

C20_NoFileMissed ==
    \A f \in Files :
        (/\ "old" \in clk.seen[f]
         /\ clk.seen[f] \cap {"bad", "lost", "unlisted"} = {})
        => "sent" \in clk.seen[f]

====
